---- MODULE Spec2Model ----
(***************************************************************************)
(* Galvable: BLE multi-channel galvanometer controller (ESP32-C3).         *)
(* Model of esp32c3_galvo.ino: the main task (setup, loop) and the three   *)
(* NimBLE callbacks (onConnect, onDisconnect, onWrite) with set_duty.      *)
(* A float is kept as its IEEE-754 binary32 fields, so that the clamp, the *)
(* single-precision product f * 1000.0f and the conversion to int are      *)
(* computed bit-exactly, with every intermediate below 2^31.               *)
(***************************************************************************)
EXTENDS Integers, Sequences, FiniteSets, TLC

\* ------------------------------------------------------------ constants

LED_PIN == 8

GALVO_PINS == <<4, 3, 2, 1, 0, 10>>

NUM_CHANNELS == Len(GALVO_PINS)

Channels == 0 .. (NUM_CHANNELS - 1)

Pins == {GALVO_PINS[k] : k \in 1 .. NUM_CHANNELS}

\* GALVO_PINS[ch] with the source's 0-based index
PinOf(ch) == GALVO_PINS[ch + 1]

INT_MAX == 2147483647

\* ------------------------------------------------------------ binary32

Pow2(n) == 2 ^ n

\* the four bytes taken in the opposite order (byte 0 most significant)
BytesToFloat_BigEndian(b) ==
    [sign |-> b[1] \div 128,
     exp  |-> (b[1] % 128) * 2 + (b[2] \div 128),
     man  |-> (b[2] % 128) * 65536 + b[3] * 256 + b[4]]

\* memcpy(&f, val.data(), 4) on a little-endian core: byte 3 carries the sign
\* and the high 7 exponent bits, byte 2 the low exponent bit and the high 7
\* fraction bits, bytes 1 and 0 the rest of the fraction.
BytesToFloat(b) ==
    [sign |-> b[4] \div 128,
     exp  |-> (b[4] % 128) * 2 + (b[3] \div 128),
     man  |-> (b[3] % 128) * 65536 + b[2] * 256 + b[1]]

FZero == [sign |-> 0, exp |-> 0, man |-> 0]

FOne == [sign |-> 0, exp |-> 127, man |-> 0]

\* isnan(f)
IsNaN(f) == f.exp = 255 /\ f.man # 0

\* f < 0.0f : false for NaN and for both zeros
LtZero(f) == ~IsNaN(f) /\ f.sign = 1 /\ ~(f.exp = 0 /\ f.man = 0)

\* f > 1.0f : false for NaN
GtOne(f) == ~IsNaN(f) /\ f.sign = 0 /\ (f.exp > 127 \/ (f.exp = 127 /\ f.man > 0))

\* number of significant bits of p, 0 <= p < 2^31
BitLen(p) == Cardinality({n \in 1 .. 31 : Pow2(n - 1) <= p})

\* The significand (with the hidden bit of a normal number) and the power of
\* two it is scaled by: |f| = Sig(f) * 2^Exp2(f) for finite f.
Sig(f) == IF f.exp = 0 THEN f.man ELSE f.man + 8388608

Exp2(f) == IF f.exp = 0 THEN 0 - 149 ELSE f.exp - 150

\* f * 1000.0f in binary32, round to nearest, ties to even.  1000 = 125 * 2^3,
\* so the exact product is Sig(f) * 125 * 2^(Exp2(f) + 3) and Sig(f) * 125 is
\* below 2^31.  The result is kept as its rounded significand q (at most 24
\* bits) and exponent e: |f * 1000.0f| = q * 2^e.  A product below the normal
\* range is kept exact here; it is below 1 either way.  special: f is NaN or
\* an infinity, and so is the product.
FMul1000(f) ==
    LET p    == Sig(f) * 125
        sh   == IF BitLen(p) > 24 THEN BitLen(p) - 24 ELSE 0
        q0   == p \div Pow2(sh)
        r    == p % Pow2(sh)
        half == IF sh = 0 THEN 0 ELSE Pow2(sh - 1)
        up   == sh > 0 /\ (r > half \/ (r = half /\ q0 % 2 = 1))
    IN  [sign    |-> f.sign,
         q       |-> IF up THEN q0 + 1 ELSE q0,
         e       |-> Exp2(f) + 3 + sh,
         special |-> f.exp = 255]

\* a conversion that rounds to the nearest integer instead of truncating
CastToInt_RoundNearest(x) ==
    LET mag == IF x.e >= 0
               THEN x.q * Pow2(x.e)
               ELSE IF 0 - x.e >= 31 THEN 0
                    ELSE (x.q + Pow2(0 - x.e - 1)) \div Pow2(0 - x.e)
    IN  {IF x.sign = 1 THEN 0 - mag ELSE mag}

\* (int)x : truncation toward zero.  Converting NaN, an infinity or a value
\* outside the range of int is undefined behaviour: any int may result, of
\* which the extremes and 0 stand here.
CastToInt(x) ==
    LET inRange == ~x.special /\ (x.q = 0 \/ (x.e < 8 /\ (x.e < 0 \/ x.q <= INT_MAX \div Pow2(x.e))))
        mag     == IF x.e >= 0
                   THEN x.q * Pow2(x.e)
                   ELSE IF 0 - x.e >= 31 THEN 0 ELSE x.q \div Pow2(0 - x.e)
    IN  IF inRange
        THEN {IF x.sign = 1 THEN 0 - mag ELSE mag}
        ELSE {0 - INT_MAX - 1, 0, INT_MAX}

\* Clamp without the isnan test
Clamp_NoNaN(f) ==
    LET g == IF LtZero(f) THEN FZero ELSE f
    IN  IF GtOne(g) THEN FOne ELSE g

\* Clamp without its second test: a value above 1.0f stays as it is
Clamp_NoUpper(f) == IF IsNaN(f) \/ LtZero(f) THEN FZero ELSE f

\* Clamp that sends a value above 1.0f to 0.0f
Clamp_AboveOneToZero(f) ==
    LET g == IF IsNaN(f) \/ LtZero(f) THEN FZero ELSE f
    IN  IF GtOne(g) THEN FZero ELSE g

\* onWrite's clamp: NaN and negatives to 0.0f, then anything above 1.0f to 1.0f
Clamp(f) ==
    LET g == IF IsNaN(f) \/ LtZero(f) THEN FZero ELSE f
    IN  IF GtOne(g) THEN FOne ELSE g

\* ------------------------------------------------------------ inputs

\* longest payload a peer sends here (the two formats are 4 and 5 bytes)
MaxLen == 6

\* float32 values as the little-endian bytes a peer sends:
\* 0.5, 1.0, 0.7f (0x3F333333), 2.0, -5.0, NaN, 0.0, -0.0, +inf, -inf
Words ==
    { <<0, 0, 0, 63>>, <<0, 0, 128, 63>>, <<51, 51, 51, 63>>,
      <<0, 0, 0, 64>>, <<0, 0, 160, 192>>, <<0, 0, 192, 127>>,
      <<0, 0, 0, 0>>, <<0, 0, 0, 128>>, <<0, 0, 128, 127>>, <<0, 0, 128, 255>> }

\* channel bytes: first, middle and last channel, the first index out of
\* range and its successor, and the two ends of the high half of the byte
ChannelBytes == {0, 2, NUM_CHANNELS - 1, NUM_CHANNELS, NUM_CHANNELS + 1, 128, 255}

\* the first n bytes of 1.0f followed by channel byte 2 and padding
Cut(n) == [k \in 1 .. n |-> (<<0, 0, 128, 63, 2>> \o [j \in 1 .. MaxLen |-> 255])[k]]

\* further channel bytes out of range, sent with 1.0
FarChannelBytes == {8, 15, 16, 63, 64, 127, 129, 254}

Payloads ==
    Words
    \cup {w \o <<c>> : w \in Words, c \in ChannelBytes}
    \cup {<<0, 0, 128, 63, c>> : c \in FarChannelBytes}
    \cup {Cut(n) : n \in (0 .. MaxLen) \ {4, 5}}

\* The wider input set of the single-write scenario SpecMap.  Every 4-byte
\* payload whose bytes are drawn from these sets: they span both signs, the
\* zeros, a subnormal, values around k/1000 on either side (0x3A83126E/6F,
\* 0x3C23D70A, 0x3E99999A, 0x3F19999A, 0x3F333333, 0x3F4CCCCD, 0x3F666666),
\* the neighbours of 0.5 and 1.0, values above 1.0, infinities and NaNs.
Byte0 == {0, 1, 10, 51, 102, 110, 111, 154, 205, 255}

Byte1 == {0, 18, 51, 102, 153, 204, 215, 255}

Byte2 == {0, 25, 35, 51, 76, 102, 127, 128, 131, 153, 160, 192, 255}

Byte3 == {0, 58, 60, 62, 63, 64, 127, 128, 191, 192, 255}

MapWords == {<<b0, b1, b2, b3>> : b0 \in Byte0, b1 \in Byte1, b2 \in Byte2, b3 \in Byte3}

\* ... and every channel byte 0..255 behind each value of Words
MapPayloads == MapWords \cup {w \o <<c>> : w \in Words, c \in 0 .. 255}

\* disconnect reason codes handed to onDisconnect (connection timeout,
\* remote user terminated)
Reasons == {520, 531}

\* ------------------------------------------------------------ state

VARIABLES
    pc,           \* main task: "pwm", "led", "ble", "adv" in setup(), then "loop"
    i,            \* setup()'s loop index
    duty,         \* int duty[]
    pwm,          \* LEDC duty last written to each pin, -1 before ledcAttach
    led,          \* level driven on LED_PIN: -1 before pinMode, HIGH off, LOW on
    callbacks,    \* server and characteristic callbacks are registered
    attValue,     \* the characteristic's value
    advertising,  \* the stack is advertising
    connected,    \* the stack's one connection slot holds a peer
    last,         \* the most recent stack notification delivered
    calls         \* the calls the most recent callback made, in order

vars == <<pc, i, duty, pwm, led, callbacks, attValue, advertising, connected, last, calls>>

Init ==
    /\ pc = "pwm"
    /\ i = 0
    /\ duty = [c \in Channels |-> 0]
    /\ pwm = [p \in Pins |-> 0 - 1]
    /\ led = 0 - 1
    /\ callbacks = FALSE
    /\ attValue = <<>>
    /\ advertising = FALSE
    /\ connected = FALSE
    /\ last = [kind |-> "none", reason |-> 0]
    /\ calls = <<>>

\* one entry of calls: the function called (for dbg, with its format string)
\* and its integer arguments, 0 where it has fewer than two
Call(fn, a, b) == [fn |-> fn, a |-> a, b |-> b]

\* Arduino pin levels; LED_PIN is active low
LOW == 0

HIGH == 1

\* ------------------------------------------------------------ main task

\* the channel loop stopping one channel short (i < NUM_CHANNELS - 1)
SetupPwm_OffByOne ==
    /\ pc = "pwm"
    /\ i < NUM_CHANNELS
    /\ pwm' = [pwm EXCEPT ![PinOf(i)] = 0]
    /\ duty' = [duty EXCEPT ![i] = 0]
    /\ i' = i + 1
    /\ pc' = IF i + 1 < NUM_CHANNELS - 1 THEN "pwm" ELSE "led"
    /\ UNCHANGED <<led, callbacks, attValue, advertising, connected, last, calls>>

\* one iteration of setup()'s channel loop
SetupPwm ==
    /\ pc = "pwm"
    /\ i < NUM_CHANNELS
    /\ pwm' = [pwm EXCEPT ![PinOf(i)] = 0]
    /\ duty' = [duty EXCEPT ![i] = 0]
    /\ i' = i + 1
    /\ pc' = IF i + 1 < NUM_CHANNELS THEN "pwm" ELSE "led"
    /\ UNCHANGED <<led, callbacks, attValue, advertising, connected, last, calls>>

SetupLed ==
    /\ pc = "led"
    /\ led' = HIGH
    /\ pc' = "ble"
    /\ UNCHANGED <<i, duty, pwm, callbacks, attValue, advertising, connected, last, calls>>

\* init, createServer, setCallbacks, createService, createCharacteristic,
\* setValue(0.0f), setCallbacks, start
SetupBle ==
    /\ pc = "ble"
    /\ callbacks' = TRUE
    /\ attValue' = <<0, 0, 0, 0>>
    /\ pc' = "adv"
    /\ UNCHANGED <<i, duty, pwm, led, advertising, connected, last, calls>>

SetupAdv ==
    /\ pc = "adv"
    /\ advertising' = TRUE
    /\ pc' = "loop"
    /\ UNCHANGED <<i, duty, pwm, led, callbacks, attValue, connected, last, calls>>

\* a loop() that returns every channel to zero deflection each pass
Loop_ResetsDuty ==
    /\ pc = "loop"
    /\ duty' = [c \in Channels |-> 0]
    /\ pwm' = [p \in Pins |-> 0]
    /\ UNCHANGED <<pc, i, led, callbacks, attValue, advertising, connected, last, calls>>

\* loop(): delay(1000)
Loop ==
    /\ pc = "loop"
    /\ UNCHANGED vars

\* ------------------------------------------------------------ callbacks

\* set_duty that clamps an out-of-range channel to the last one
set_duty_ClampChannel(ch, f) ==
    LET c == IF ch >= NUM_CHANNELS THEN NUM_CHANNELS - 1 ELSE ch
    IN  \E d \in CastToInt(FMul1000(f)) :
            /\ duty' = [duty EXCEPT ![c] = d]
            /\ pwm' = [pwm EXCEPT ![PinOf(c)] = d]
            /\ calls' = <<Call("ledcWrite", PinOf(c), d),
                          Call("dbg: Ch %d: %.4f -> duty %d", c, d)>>

\* set_duty that leaves a channel alone once it holds a non-zero duty
set_duty_KeepsFirst(ch, f) ==
    IF ch >= NUM_CHANNELS
    THEN /\ calls' = <<Call("dbg: Invalid channel %d (max %d)", ch, NUM_CHANNELS - 1)>>
         /\ UNCHANGED <<duty, pwm>>
    ELSE \E d \in CastToInt(FMul1000(f)) :
            LET n == IF duty[ch] = 0 THEN d ELSE duty[ch]
            IN  /\ duty' = [duty EXCEPT ![ch] = n]
                /\ pwm' = [pwm EXCEPT ![PinOf(ch)] = n]
                /\ calls' = <<Call("ledcWrite", PinOf(ch), n),
                              Call("dbg: Ch %d: %.4f -> duty %d", ch, n)>>

\* set_duty that also applies the duty to channel 0
set_duty_MirrorsChannel0(ch, f) ==
    IF ch >= NUM_CHANNELS
    THEN /\ calls' = <<Call("dbg: Invalid channel %d (max %d)", ch, NUM_CHANNELS - 1)>>
         /\ UNCHANGED <<duty, pwm>>
    ELSE \E d \in CastToInt(FMul1000(f)) :
            /\ duty' = [[duty EXCEPT ![ch] = d] EXCEPT ![0] = d]
            /\ pwm' = [[pwm EXCEPT ![PinOf(ch)] = d] EXCEPT ![PinOf(0)] = d]
            /\ calls' = <<Call("ledcWrite", PinOf(ch), d),
                          Call("dbg: Ch %d: %.4f -> duty %d", ch, d)>>

\* set_duty that issues the hardware write twice
set_duty_WritesTwice(ch, f) ==
    IF ch >= NUM_CHANNELS
    THEN /\ calls' = <<Call("dbg: Invalid channel %d (max %d)", ch, NUM_CHANNELS - 1)>>
         /\ UNCHANGED <<duty, pwm>>
    ELSE \E d \in CastToInt(FMul1000(f)) :
            /\ duty' = [duty EXCEPT ![ch] = d]
            /\ pwm' = [pwm EXCEPT ![PinOf(ch)] = d]
            /\ calls' = <<Call("ledcWrite", PinOf(ch), d),
                          Call("ledcWrite", PinOf(ch), d),
                          Call("dbg: Ch %d: %.4f -> duty %d", ch, d)>>

\* set_duty that stores the duty but leaves the hardware write out
set_duty_StoresOnly(ch, f) ==
    IF ch >= NUM_CHANNELS
    THEN /\ calls' = <<Call("dbg: Invalid channel %d (max %d)", ch, NUM_CHANNELS - 1)>>
         /\ UNCHANGED <<duty, pwm>>
    ELSE \E d \in CastToInt(FMul1000(f)) :
            /\ duty' = [duty EXCEPT ![ch] = d]
            /\ UNCHANGED pwm
            /\ calls' = <<Call("dbg: Ch %d: %.4f -> duty %d", ch, d)>>

set_duty(ch, f) ==
    IF ch >= NUM_CHANNELS
    THEN /\ calls' = <<Call("dbg: Invalid channel %d (max %d)", ch, NUM_CHANNELS - 1)>>
         /\ UNCHANGED <<duty, pwm>>
    ELSE \E d \in CastToInt(FMul1000(f)) :
            /\ duty' = [duty EXCEPT ![ch] = d]
            /\ pwm' = [pwm EXCEPT ![PinOf(ch)] = d]
            /\ calls' = <<Call("ledcWrite", PinOf(ch), d),
                          Call("dbg: Ch %d: %.4f -> duty %d", ch, d)>>

\* onWrite that takes the channel from the payload's last byte in both formats
onWrite_ChannelFromLastByte(val) ==
    IF Len(val) = 4 \/ Len(val) = 5
    THEN set_duty(val[Len(val)], Clamp(BytesToFloat(val)))
    ELSE /\ calls' = <<>>
         /\ UNCHANGED <<duty, pwm>>

\* onWrite that takes any payload of at least 4 bytes as the 4-byte format
onWrite_AtLeast4(val) ==
    IF Len(val) = 5
    THEN set_duty(val[5], Clamp(BytesToFloat(val)))
    ELSE IF Len(val) >= 4
         THEN set_duty(0, Clamp(BytesToFloat(val)))
         ELSE /\ calls' = <<>>
              /\ UNCHANGED <<duty, pwm>>

\* onWrite whose 4-byte path hands the value to set_duty without the clamp
onWrite_FourBytesUnclamped(val) ==
    IF Len(val) = 4
    THEN set_duty(0, BytesToFloat(val))
    ELSE IF Len(val) = 5
         THEN set_duty(val[5], Clamp(BytesToFloat(val)))
         ELSE /\ calls' = <<>>
              /\ UNCHANGED <<duty, pwm>>

onWrite(val) ==
    IF Len(val) = 4
    THEN set_duty(0, Clamp(BytesToFloat(val)))
    ELSE IF Len(val) = 5
         THEN set_duty(val[5], Clamp(BytesToFloat(val)))
         ELSE /\ calls' = <<>>
              /\ UNCHANGED <<duty, pwm>>

\* onConnect that logs the connection but leaves the LED alone
onConnect_NoLed ==
    /\ UNCHANGED led
    /\ calls' = <<Call("dbg: Client connected", 0, 0)>>

\* onConnect that asks the stack to stop advertising
onConnect_StopsAdvertising ==
    /\ led' = LOW
    /\ calls' = <<Call("dbg: Client connected", 0, 0),
                  Call("digitalWrite", LED_PIN, LOW),
                  Call("stopAdvertising", 0, 0)>>

onConnect ==
    /\ led' = LOW
    /\ calls' = <<Call("dbg: Client connected", 0, 0),
                  Call("digitalWrite", LED_PIN, LOW)>>

\* onDisconnect that restarts advertising twice
onDisconnect_StartTwice(reason) ==
    /\ led' = HIGH
    /\ advertising' = TRUE
    /\ calls' = <<Call("dbg: Client disconnected (reason=%d) - restarting advertising", reason, 0),
                  Call("digitalWrite", LED_PIN, HIGH),
                  Call("startAdvertising", 0, 0),
                  Call("startAdvertising", 0, 0)>>

\* onDisconnect that does not restart advertising
onDisconnect_NoRestart(reason) ==
    /\ led' = HIGH
    /\ UNCHANGED advertising
    /\ calls' = <<Call("dbg: Client disconnected (reason=%d) - restarting advertising", reason, 0),
                  Call("digitalWrite", LED_PIN, HIGH)>>

\* onDisconnect that restarts advertising only after a remote termination
onDisconnect_BranchOnReason(reason) ==
    /\ led' = HIGH
    /\ advertising' = (reason = 531)
    /\ calls' = <<Call("dbg: Client disconnected (reason=%d) - restarting advertising", reason, 0),
                  Call("digitalWrite", LED_PIN, HIGH)>>
              \o (IF reason = 531 THEN <<Call("startAdvertising", 0, 0)>> ELSE <<>>)

\* NimBLEDevice::startAdvertising() puts the stack back into advertising
onDisconnect(reason) ==
    /\ led' = HIGH
    /\ advertising' = TRUE
    /\ calls' = <<Call("dbg: Client disconnected (reason=%d) - restarting advertising", reason, 0),
                  Call("digitalWrite", LED_PIN, HIGH),
                  Call("startAdvertising", 0, 0)>>

\* ------------------------------------------------------------ stack events

\* a peer connects to the advertising device: the stack fills its one
\* connection slot, stops advertising and notifies the server callbacks
Connect ==
    /\ callbacks
    /\ advertising
    /\ ~connected
    /\ connected' = TRUE
    /\ advertising' = FALSE
    /\ last' = [kind |-> "connect", reason |-> 0]
    /\ onConnect
    /\ UNCHANGED <<pc, i, duty, pwm, callbacks, attValue>>

\* a disconnect that also returns every channel to zero deflection
Disconnect_ResetsOutputs ==
    /\ callbacks
    /\ connected
    /\ \E reason \in Reasons :
          /\ connected' = FALSE
          /\ last' = [kind |-> "disconnect", reason |-> reason]
          /\ onDisconnect(reason)
    /\ duty' = [c \in Channels |-> 0]
    /\ pwm' = [p \in Pins |-> 0]
    /\ UNCHANGED <<pc, i, callbacks, attValue>>

Disconnect ==
    /\ callbacks
    /\ connected
    /\ \E reason \in Reasons :
          /\ connected' = FALSE
          /\ last' = [kind |-> "disconnect", reason |-> reason]
          /\ onDisconnect(reason)
    /\ UNCHANGED <<pc, i, duty, pwm, callbacks, attValue>>

\* a stack that would hand over a write with no peer connected
WriteDeliverable_Always == callbacks

\* The stack delivers a characteristic write only from the connected peer.
\* This is the stack's doing, as the specification describes it: nothing in
\* onWrite looks at the connection.
WriteDeliverable == callbacks /\ connected

\* a write notification that also switches the LED off
WriteFrom_LedOff(S) ==
    /\ WriteDeliverable
    /\ \E val \in S :
          /\ attValue' = val
          /\ last' = [kind |-> "write", reason |-> 0]
          /\ onWrite(val)
    /\ led' = HIGH
    /\ UNCHANGED <<pc, i, callbacks, advertising, connected>>

\* the connected peer writes the characteristic: the stack stores the value
\* and notifies the characteristic callbacks
WriteFrom(S) ==
    /\ WriteDeliverable
    /\ \E val \in S :
          /\ attValue' = val
          /\ last' = [kind |-> "write", reason |-> 0]
          /\ onWrite(val)
    /\ UNCHANGED <<pc, i, led, callbacks, advertising, connected>>

Write == WriteFrom(Payloads)

Next ==
    \/ SetupPwm
    \/ SetupLed
    \/ SetupBle
    \/ SetupAdv
    \/ Loop
    \/ Connect
    \/ Disconnect
    \/ Write

Spec == Init /\ [][Next]_vars

\* ------------------------------------------------------------ single write

\* The first write of a connection, over the wider input set.  It starts in
\* two states Spec reaches: the device connected for the first time with every
\* channel at 0, and the device reconnected after channels 0, 2 and 5 were
\* set to 0.5, 1.0 and 0.7f (the last of them by <<51, 51, 51, 63, 5>>).
MapTables ==
    { [c \in Channels |-> 0],
      [c \in Channels |-> CASE c = 0 -> 500 [] c = 2 -> 1000 [] c = 5 -> 700 [] OTHER -> 0] }

InitMap ==
    /\ pc = "loop"
    /\ i = NUM_CHANNELS
    /\ duty \in MapTables
    /\ pwm = [p \in Pins |-> duty[CHOOSE c \in Channels : PinOf(c) = p]]
    /\ led = LOW
    /\ callbacks = TRUE
    /\ attValue = IF duty[5] = 0 THEN <<0, 0, 0, 0>> ELSE <<51, 51, 51, 63, 5>>
    /\ advertising = FALSE
    /\ connected = TRUE
    /\ last = [kind |-> "connect", reason |-> 0]
    /\ calls = <<Call("dbg: Client connected", 0, 0), Call("digitalWrite", LED_PIN, LOW)>>

FirstWrite ==
    /\ last.kind = "connect"
    /\ WriteFrom(MapPayloads)

SpecMap == InitMap /\ [][FirstWrite]_vars

\* ------------------------------------------------------------ properties

\* The duty each value of Words stands for, from IEEE-754 and the README's
\* table: 0.5 -> 500, 1.0 -> 1000, 0.7f -> 700, 2.0 -> 1000, -5.0 -> 0,
\* NaN -> 0, 0.0 -> 0, -0.0 -> 0, +inf -> 1000, -inf -> 0.
WordDuty(w) ==
    CASE w = <<0, 0, 0, 63>>     -> 500
      [] w = <<0, 0, 128, 63>>   -> 1000
      [] w = <<51, 51, 51, 63>>  -> 700
      [] w = <<0, 0, 0, 64>>     -> 1000
      [] w = <<0, 0, 160, 192>>  -> 0
      [] w = <<0, 0, 192, 127>>  -> 0
      [] w = <<0, 0, 0, 0>>      -> 0
      [] w = <<0, 0, 0, 128>>    -> 0
      [] w = <<0, 0, 128, 127>>  -> 1000
      [] w = <<0, 0, 128, 255>>  -> 0
      [] OTHER                   -> 0 - 1

\* a payload in one of the two formats, with a channel the table has
Accepted(v) == Len(v) = 4 \/ (Len(v) = 5 /\ v[5] < NUM_CHANNELS)

TargetOf(v) == IF Len(v) = 4 THEN 0 ELSE v[5]

NumCalls(fn) == Cardinality({k \in DOMAIN calls : calls[k].fn = fn})

\* this step handled the payload attValue' as an accepted write of a value of
\* Words: the target channel and its pin carry the value's duty, by one
\* ledcWrite
ProcessedNormally ==
    LET c == TargetOf(attValue')
        d == WordDuty(SubSeq(attValue', 1, 4))
    IN  /\ duty'[c] = d
        /\ pwm'[PinOf(c)] = d
        /\ calls'[1] = Call("ledcWrite", PinOf(c), d)
        /\ NumCalls("ledcWrite")' = 1

\* C1: in every reachable state, whatever connect, disconnect and write
\* events with whatever payloads came before, the stored duty of every
\* channel is an integer in 0..1000.
C1_DutyInRange == \A c \in Channels : duty[c] \in 0 .. 1000

\* a write of 2.0 to channel 2 was clamped to 1000, channel 0 holding 500
C1_Witness ==
    /\ last.kind = "write"
    /\ attValue = <<0, 0, 0, 64, 2>>
    /\ duty[2] = 1000
    /\ duty[0] = 500

\* C2: a write whose payload length is neither 4 nor 5 is a no-op: it makes
\* no call (no hardware write, no log line), changes no duty, no output and
\* nothing else of the device's state; and the write that follows it, when in
\* one of the two formats with a channel below NUM_CHANNELS, is processed
\* normally.
C2_OtherLengthNoOp ==
    [][ /\ (last'.kind = "write" /\ Len(attValue') \notin {4, 5})
            => /\ calls' = <<>>
               /\ UNCHANGED <<duty, pwm, led, advertising, connected, callbacks, pc, i>>
        /\ (last.kind = "write" /\ Len(attValue) \notin {4, 5}
              /\ last'.kind = "write" /\ Accepted(attValue'))
            => ProcessedNormally
      ]_vars

\* a 6-byte write was ignored while channels 0 and 2 held 500 and 1000
C2_Witness ==
    /\ last.kind = "write"
    /\ Len(attValue) = 6
    /\ calls = <<>>
    /\ duty[0] = 500
    /\ duty[2] = 1000

\* C3: a 5-byte write whose channel byte is NUM_CHANNELS or more is rejected:
\* it issues no hardware write (only the log line), the duty and the output
\* of every channel stay as they were, the connection stays up, and the write
\* that follows it, when acceptable, is processed normally.
C3_ChannelOutOfRangeRejected ==
    [][ /\ (last'.kind = "write" /\ Len(attValue') = 5 /\ attValue'[5] >= NUM_CHANNELS)
            => /\ NumCalls("ledcWrite")' = 0
               /\ UNCHANGED <<duty, pwm, led, advertising, connected, callbacks, pc, i>>
        /\ (last.kind = "write" /\ Len(attValue) = 5 /\ attValue[5] >= NUM_CHANNELS
              /\ last'.kind = "write" /\ Accepted(attValue'))
            => ProcessedNormally
      ]_vars

\* a write of 1.0 to channel 255 was rejected while channels 0, 2 and 5 held
\* 500, 1000 and 700
C3_Witness ==
    /\ last.kind = "write"
    /\ attValue = <<0, 0, 128, 63, 255>>
    /\ NumCalls("ledcWrite") = 0
    /\ duty[0] = 500
    /\ duty[2] = 1000
    /\ duty[5] = 700

\* Bytes 0-3 of a payload read as a little-endian float32, by the bit layout:
\* the upper half word holds the sign (bit 15), the exponent (bits 14..7) and
\* the top 7 fraction bits, the lower half word the other 16 fraction bits.
HiHalf(v) == v[4] * 256 + v[3]

LoHalf(v) == v[2] * 256 + v[1]

LEFloat32(v) ==
    [sign |-> HiHalf(v) \div 32768,
     exp  |-> (HiHalf(v) % 32768) \div 128,
     man  |-> (HiHalf(v) % 128) * 65536 + LoHalf(v)]

\* the duty mapper: the clamp of onWrite, then the scaling of set_duty
MappedDuty(f) == CHOOSE d \in CastToInt(FMul1000(Clamp(f))) : TRUE

\* C4: a 4-byte write, whatever its bytes, targets channel 0: after it
\* channel 0 (and pin GALVO_PINS[0], by one ledcWrite) carries the duty mapped
\* from bytes 0-3 read as a little-endian float32, and no other channel
\* changed.
C4_FourBytesTargetChannel0 ==
    [][ (last'.kind = "write" /\ Len(attValue') = 4)
          => LET d == MappedDuty(LEFloat32(attValue'))
             IN  /\ duty' = [duty EXCEPT ![0] = d]
                 /\ pwm' = [pwm EXCEPT ![GALVO_PINS[1]] = d]
                 /\ calls'[1] = Call("ledcWrite", GALVO_PINS[1], d)
      ]_vars

\* the 4-byte write of 0x3F19999A (0.6f) set channel 0 to 600 on the device
\* whose channels 2 and 5 hold 1000 and 700
C4_Witness ==
    /\ last.kind = "write"
    /\ attValue = <<154, 153, 25, 63>>
    /\ duty[0] = 600
    /\ duty[2] = 1000
    /\ duty[5] = 700

\* C5: a 5-byte write is decoded to the channel byte 4 holds, whatever it is
\* (0..255), and to the value of bytes 0-3 as a little-endian float32.  With
\* byte 4 below NUM_CHANNELS that channel and its pin get the duty mapped from
\* the value and nothing else changes; otherwise set_duty is still handed
\* byte 4 as it is (its log line names it) and changes nothing.
C5_FiveBytesChannelIsByte4 ==
    [][ (last'.kind = "write" /\ Len(attValue') = 5)
          => LET c == attValue'[5]
                 d == MappedDuty(LEFloat32(attValue'))
             IN  IF c < NUM_CHANNELS
                 THEN /\ duty' = [duty EXCEPT ![c] = d]
                      /\ pwm' = [pwm EXCEPT ![PinOf(c)] = d]
                      /\ calls'[1] = Call("ledcWrite", PinOf(c), d)
                 ELSE /\ calls' = <<Call("dbg: Invalid channel %d (max %d)", c, NUM_CHANNELS - 1)>>
                      /\ UNCHANGED <<duty, pwm>>
      ]_vars

\* the write of 0.5 with channel byte 3 set channel 3 to 500 and left
\* channels 0, 2 and 5 at 500, 1000 and 700
C5_Witness ==
    /\ last.kind = "write"
    /\ attValue = <<0, 0, 0, 63, 3>>
    /\ duty[3] = 500
    /\ duty[0] = 500
    /\ duty[2] = 1000
    /\ duty[5] = 700

\* Classes of float32 values, read off the payload's bytes.
SignSet(v) == v[4] >= 128

NaNBytes(v) == v[4] % 128 = 127 /\ v[3] >= 128 /\ (v[3] > 128 \/ v[2] > 0 \/ v[1] > 0)

\* below zero: -infinity included, -0.0 not
NegativeBytes(v) == SignSet(v) /\ ~NaNBytes(v) /\ v # <<0, 0, 0, 128>>

\* above 1.0 (0x3F800000): +infinity included
AboveOneBytes(v) ==
    /\ ~SignSet(v)
    /\ ~NaNBytes(v)
    /\ \/ v[4] > 63
       \/ v[4] = 63 /\ v[3] > 128
       \/ v[4] = 63 /\ v[3] = 128 /\ (v[2] > 0 \/ v[1] > 0)

\* in [0.0, 1.0], -0.0 included
InUnitBytes(v) == ~NaNBytes(v) /\ ~NegativeBytes(v) /\ ~AboveOneBytes(v)

\* the value bytes of the write just handled, and the channel it set
ValueBytes == SubSeq(attValue, 1, 4)

WriteApplied == last.kind = "write" /\ Accepted(attValue)

\* C6: the duty mapping is total and sanitizing: whatever float32 a write
\* carries, the duty it sets is an integer in 0..1000; NaN, every negative
\* value and -infinity give 0; every value above 1.0 and +infinity give 1000;
\* and NaN -> 0, -5.0 -> 0, 2.0 -> 1000, 0.5 -> 500, 1.0 -> 1000, 0.0 -> 0.
C6_MappingTotalAndSanitizing ==
    WriteApplied =>
        LET v == ValueBytes
            d == duty[TargetOf(attValue)]
        IN  /\ d \in 0 .. 1000
            /\ (NaNBytes(v) \/ NegativeBytes(v)) => d = 0
            /\ AboveOneBytes(v) => d = 1000
            /\ v = <<0, 0, 192, 127>> => d = 0
            /\ v = <<0, 0, 160, 192>> => d = 0
            /\ v = <<0, 0, 0, 64>> => d = 1000
            /\ v = <<0, 0, 0, 63>> => d = 500
            /\ v = <<0, 0, 128, 63>> => d = 1000
            /\ v = <<0, 0, 0, 0>> => d = 0

\* a NaN with a payload in its fraction bits and the sign bit set
\* (0xFFFF3301) was written to channel 0, which holds 0
C6_Witness ==
    /\ last.kind = "write"
    /\ attValue = <<1, 51, 255, 255>>
    /\ duty[0] = 0
    /\ duty[5] = 700

\* v * 1000 for a finite float32 v >= 0 below 2^20, truncated toward zero, in
\* exact arithmetic: no rounding of the product
ExactTrunc(f) ==
    LET p == Sig(f) * 125
        e == Exp2(f) + 3
    IN  IF e >= 0 THEN p * Pow2(e)
        ELSE IF 0 - e >= 31 THEN 0 ELSE p \div Pow2(0 - e)

\* the next float32 above a finite f >= 0
NextUp(f) ==
    IF f.man = 8388607
    THEN [sign |-> 0, exp |-> f.exp + 1, man |-> 0]
    ELSE [sign |-> 0, exp |-> f.exp, man |-> f.man + 1]

\* C7 as stated: for every value v in [0.0, 1.0] the duty is v x 1000
\* truncated toward zero, so that a value just below k/1000 yields k-1.
C7_TruncatesExactProduct ==
    (WriteApplied /\ InUnitBytes(ValueBytes))
        => duty[TargetOf(attValue)] = ExactTrunc(LEFloat32(ValueBytes))

\* C7, amended: for every value v in [0.0, 1.0] the value passes through
\* unclamped and the duty is the single-precision product v * 1000.0f, which
\* is rounded to the nearest float32, truncated toward zero.  The duty is
\* trunc(v x 1000) or one more; it is one more, k, only for a v below k/1000
\* whose next float32 is k/1000 or above; and 1000 is produced only by 1.0.
C7_TruncatesRoundedProduct ==
    (WriteApplied /\ InUnitBytes(ValueBytes))
        => LET f == LEFloat32(ValueBytes)
               d == duty[TargetOf(attValue)]
           IN  /\ ExactTrunc(f) <= d
               /\ d <= ExactTrunc(f) + 1
               /\ d > ExactTrunc(f) => ExactTrunc(NextUp(f)) >= d
               /\ d = 1000 => ValueBytes = <<0, 0, 128, 63>>

\* 0x3F333333, the float32 nearest to 0.7 and below it, set channel 0 to 700
C7_Witness ==
    /\ last.kind = "write"
    /\ attValue = <<51, 51, 51, 63>>
    /\ duty[0] = 700
    /\ duty[5] = 700

\* C8: the indicator is on exactly when a peer is connected: LED_PIN is
\* driven LOW iff connected, in every reachable state, and once setup is over
\* it is driven HIGH or LOW; its level changes only in setup (to off), on a
\* connect (to on) and on a disconnect (to off).
C8_IndicatorIffConnected ==
    /\ [](led = LOW <=> connected)
    /\ [](pc = "loop" => led \in {LOW, HIGH})
    /\ [][ led' # led =>
             \/ pc = "led" /\ led' = HIGH
             \/ ~connected /\ connected' /\ last'.kind = "connect" /\ led' = LOW
             \/ connected /\ ~connected' /\ last'.kind = "disconnect" /\ led' = HIGH
         ]_vars

\* a peer is connected for the second time at least, and the LED is on
C8_Witness ==
    /\ connected
    /\ led = LOW
    /\ last.kind = "connect"
    /\ duty[0] = 500

\* C9: every disconnect turns the indicator off and asks for advertising to
\* start exactly once, and a connect does not ask for it: over connect then
\* disconnect the indicator ends off and advertising was requested once.
C9_DisconnectRestartsAdvertisingOnce ==
    [][ /\ (connected /\ ~connected')
            => /\ last'.kind = "disconnect"
               /\ led' = HIGH
               /\ NumCalls("startAdvertising")' = 1
        /\ (~connected /\ connected')
            => /\ led' = LOW
               /\ NumCalls("startAdvertising")' = 0
      ]_vars

\* the peer has disconnected (remote user terminated): LED off, one request
C9_Witness ==
    /\ last = [kind |-> "disconnect", reason |-> 531]
    /\ ~connected
    /\ led = HIGH
    /\ NumCalls("startAdvertising") = 1

\* C10: once setup is over, whenever no peer is connected the device is
\* advertising and a peer can connect: no state is idle and not advertising.
C10_IdleImpliesAdvertising ==
    (pc = "loop" /\ ~connected) => (advertising /\ ENABLED Connect)

\* idle again after a connection in which channel 0 was written
C10_Witness ==
    /\ pc = "loop"
    /\ last.kind = "disconnect"
    /\ ~connected
    /\ advertising
    /\ duty[0] = 500

\* every channel's output has been written and the LED pin configured
OutputsInitialized ==
    /\ i = NUM_CHANNELS
    /\ \A p \in Pins : pwm[p] >= 0
    /\ led \in {LOW, HIGH}

\* C11: setup() writes every channel's output to 0 and sets its duty to 0
\* before it creates the BLE service and before it starts advertising, so no
\* callback is registered and no connect or write is delivered while a
\* channel is uninitialized; the state setup() hands over is all duties 0,
\* all outputs 0, indicator off, idle.
C11_OutputsZeroBeforeReachable ==
    /\ (callbacks \/ advertising \/ connected \/ last.kind # "none"
          \/ pc \in {"ble", "adv", "loop"}) => OutputsInitialized
    /\ (pc \in {"ble", "adv"} \/ (pc = "loop" /\ last.kind = "none"))
          => /\ \A c \in Channels : duty[c] = 0 /\ pwm[PinOf(c)] = 0
             /\ led = HIGH
             /\ ~connected

\* setup() is over, the device advertises and no event has been delivered
C11_Witness ==
    /\ pc = "loop"
    /\ advertising
    /\ callbacks
    /\ last.kind = "none"
    /\ \A c \in Channels : pwm[PinOf(c)] = 0

\* C12: last write wins, per channel.  Duties and outputs start at 0; an
\* accepted write sets its channel's duty and output to the duty of its value,
\* whatever the channel held; and no other step (a rejected or ignored write,
\* a connect, a disconnect, the idle loop) changes any duty or output: nothing
\* is queued, decays or times out.
C12_LastWriteWins ==
    /\ [](last.kind = "none" => \A c \in Channels : duty[c] = 0 /\ pwm[PinOf(c)] \in {0 - 1, 0})
    /\ [][ IF last'.kind = "write" /\ Accepted(attValue')
           THEN LET c == TargetOf(attValue')
                    d == WordDuty(SubSeq(attValue', 1, 4))
                IN  /\ duty'[c] = d
                    /\ pwm'[PinOf(c)] = d
           ELSE pc = "pwm" \/ UNCHANGED <<duty, pwm>>
         ]_vars

\* channels 0 and 5 hold 1000 and 500 from earlier writes, channel 2 holds
\* 700 from the latest one
C12_Witness ==
    /\ last.kind = "write"
    /\ attValue = <<51, 51, 51, 63, 2>>
    /\ duty[0] = 1000
    /\ duty[2] = 700
    /\ duty[5] = 500

\* C13: an accepted write to channel c changes channel c only: every other
\* channel's duty and output stay as they were.  <<0, 0, 128, 63, 2>> sets
\* channel 2 to 1000 and leaves channel 0; <<0, 0, 0, 63>> sets channel 0 to
\* 500.
C13_WriteChangesOnlyItsChannel ==
    [][ (last'.kind = "write" /\ Accepted(attValue'))
          => /\ \A k \in Channels \ {TargetOf(attValue')} :
                    duty'[k] = duty[k] /\ pwm'[PinOf(k)] = pwm[PinOf(k)]
             /\ attValue' = <<0, 0, 128, 63, 2>> => (duty'[2] = 1000 /\ duty'[0] = duty[0])
             /\ attValue' = <<0, 0, 0, 63>> => duty'[0] = 500
      ]_vars

\* 1.0 was written to channel 2 while channel 0 held 500: it still does
C13_Witness ==
    /\ last.kind = "write"
    /\ attValue = <<0, 0, 128, 63, 2>>
    /\ duty[2] = 1000
    /\ duty[0] = 500
    /\ pwm[PinOf(0)] = 500

C15_OneHardwareWritePerEvent ==
    /\ [](last.kind = "write" =>
            IF Accepted(attValue)
            THEN LET c == TargetOf(attValue)
                 IN  /\ NumCalls("ledcWrite") = 1
                     /\ calls[1] = Call("ledcWrite", PinOf(c), duty[c])
                     /\ duty[c] = WordDuty(ValueBytes)
            ELSE NumCalls("ledcWrite") = 0)
    /\ [][ (last.kind = "write" /\ last'.kind = "write" /\ attValue' = attValue)
             => UNCHANGED <<duty, pwm, calls>>
         ]_vars

\* 0.7f was written to channel 5 by one ledcWrite to pin 10
C15_Witness ==
    /\ last.kind = "write"
    /\ connected
    /\ attValue = <<51, 51, 51, 63, 5>>
    /\ calls[1] = Call("ledcWrite", 10, 700)
    /\ NumCalls("ledcWrite") = 1

\* C16: a connect and a disconnect leave every channel's duty and output as
\* they are (nothing is reset on disconnect, a channel keeps its level across
\* a reconnect), and a step of the main task in loop() changes nothing.
C16_LifecycleKeepsOutputs ==
    [][ /\ connected' # connected => UNCHANGED <<duty, pwm>>
        /\ (pc = "loop" /\ last' = last /\ attValue' = attValue)
              => UNCHANGED <<duty, pwm, led, advertising, connected, callbacks, calls>>
      ]_vars

\* reconnected after a disconnect: channels 2 and 5 still hold 1000 and 700
C16_Witness ==
    /\ last.kind = "connect"
    /\ connected
    /\ duty[2] = 1000
    /\ pwm[PinOf(2)] = 1000
    /\ duty[5] = 700

\* C17: a write event, accepted or not, leaves the connection state, the
\* indicator and the advertising state unchanged; once setup is over these
\* three change only in a connect or a disconnect notification.
C17_WritesLeaveLifecycleAlone ==
    [][ /\ last'.kind = "write" => UNCHANGED <<connected, led, advertising>>
        /\ (pc = "loop" /\ ~UNCHANGED <<connected, led, advertising>>)
              => (last'.kind \in {"connect", "disconnect"} /\ last' # last)
      ]_vars

\* a rejected write (channel 6) after an accepted one: still connected, LED
\* on, not advertising
C17_Witness ==
    /\ last.kind = "write"
    /\ ~Accepted(attValue)
    /\ Len(attValue) = 5
    /\ duty[0] = 700
    /\ connected
    /\ led = LOW
    /\ ~advertising

\* C18: the connect callback makes no advertising request, start or stop:
\* all it does is log and drive the LED pin low, and nothing else of the
\* application's state (duties, outputs, the characteristic value) changes.
C18_ConnectOnlyTurnsIndicatorOn ==
    [][ last'.kind = "connect" =>
          /\ calls' = <<Call("dbg: Client connected", 0, 0),
                        Call("digitalWrite", LED_PIN, LOW)>>
          /\ \A k \in DOMAIN calls' :
                calls'[k].fn \notin {"startAdvertising", "stopAdvertising"}
          /\ led = HIGH
          /\ led' = LOW
          /\ UNCHANGED <<duty, pwm, attValue, pc, i, callbacks>>
      ]_vars

\* first connection after startup: LED on, every duty still zero
C18_Witness ==
    /\ last.kind = "connect"
    /\ led = LOW
    /\ attValue = <<0, 0, 0, 0>>
    /\ \A c \in Channels : duty[c] = 0
    /\ calls = <<Call("dbg: Client connected", 0, 0),
                 Call("digitalWrite", LED_PIN, LOW)>>

\* what a disconnect with reason r leaves, apart from the reason it logs
DisconnectOutcome(r) ==
    /\ last' = [kind |-> "disconnect", reason |-> r]
    /\ ~connected'
    /\ led' = HIGH
    /\ advertising'
    /\ NumCalls("startAdvertising")' = 1
    /\ UNCHANGED <<duty, pwm, attValue, pc, i, callbacks>>

\* C19: the state a disconnect leaves does not depend on its reason code: in
\* every connected state a disconnect can carry either reason, and whichever
\* it carries the connection, indicator, advertising, duty and output state
\* that follows is the same one, fixed by the state before; the reason shows
\* only in the notification record and the debug line.
C19_DisconnectReasonIrrelevant ==
    connected =>
        \A r \in Reasons :
            /\ ENABLED (Disconnect /\ DisconnectOutcome(r))
            /\ ~ENABLED (Disconnect /\ last'.reason = r /\ ~DisconnectOutcome(r))

\* disconnected on a connection timeout (reason 520) with levels kept
C19_Witness ==
    /\ last = [kind |-> "disconnect", reason |-> 520]
    /\ ~connected
    /\ led = HIGH
    /\ advertising
    /\ duty[2] = 1000
    /\ duty[0] = 700

\* C20: the duty table is never open to two threads of control at once:
\* while the main task is in the part of setup that writes the table the
\* callbacks are not registered and no stack event can occur; once they are
\* registered the main task (the rest of setup, then loop()) leaves the table
\* and the outputs alone, and they change only within a single write
\* callback, one channel at a time.
C20_DutyTableSingleThread ==
    /\ [](pc = "pwm" =>
            /\ ~callbacks
            /\ last.kind = "none"
            /\ ~ENABLED Connect
            /\ ~ENABLED Disconnect
            /\ ~ENABLED Write)
    /\ [][ /\ (~callbacks /\ (duty' # duty \/ pwm' # pwm))
                => (pc = "pwm" /\ ~callbacks' /\ last' = last)
           /\ (callbacks /\ (duty' # duty \/ pwm' # pwm))
                => /\ pc = "loop" /\ pc' = "loop"
                   /\ last'.kind = "write"
                   /\ Accepted(attValue')
                   /\ duty' = [duty EXCEPT ![TargetOf(attValue')] = duty'[TargetOf(attValue')]]
           /\ (callbacks /\ (pc' # pc \/ (last' = last /\ attValue' = attValue)))
                => UNCHANGED <<duty, pwm>>
         ]_vars

\* the callbacks are registered, the main task sits in loop(), and a write
\* callback has changed channel 5
C20_Witness ==
    /\ pc = "loop"
    /\ callbacks
    /\ last.kind = "write"
    /\ attValue = <<0, 0, 128, 63, 5>>
    /\ duty[5] = 1000
    /\ duty[0] = 0

\* C21: the stored duty and the output never diverge: every channel whose
\* output has been written holds in duty[] the level last written to its pin;
\* once setup's channel loop is over that is every channel, after startup and
\* after every connect, write (accepted, rejected or ignored) and disconnect.
C21_StoredDutyIsOutputLevel ==
    /\ pc # "pwm" => i = NUM_CHANNELS
    /\ \A c \in Channels :
          /\ c < i => duty[c] = pwm[PinOf(c)]
          /\ c >= i => (duty[c] = 0 /\ pwm[PinOf(c)] = 0 - 1)
    /\ (last.kind = "write" /\ Accepted(attValue))
          => calls[1] = Call("ledcWrite", PinOf(TargetOf(attValue)), duty[TargetOf(attValue)])

\* after two accepted writes, a rejected one and a disconnect, channels 0
\* and 5 and their pins 4 and 10 hold 1000 and 500
C21_Witness ==
    /\ last.kind = "disconnect"
    /\ attValue = <<0, 0, 128, 63, 255>>
    /\ duty[0] = 1000
    /\ pwm[4] = 1000
    /\ duty[5] = 500
    /\ pwm[10] = 500

\* C22: the two formats agree on channel 0: whatever the state before, the
\* step a 4-byte write b0..b3 takes is a step the 5-byte write b0..b3,0 takes
\* too, and the other way round: the same duties, the same outputs and the
\* same calls (one ledcWrite to GALVO_PINS[0] and the log line), with
\* connection, LED and advertising left alone by both.  Only the value the
\* stack keeps for the characteristic, 4 bytes or 5, tells them apart.
C22_FourBytesIsFiveBytesChannel0 ==
    [][ LET v == attValue'
        IN  /\ (last'.kind = "write" /\ Len(v) = 4)
                  => /\ onWrite(v \o <<0>>)
                     /\ calls'[1].fn = "ledcWrite"
                     /\ calls'[1].a = GALVO_PINS[1]
                     /\ UNCHANGED <<pc, i, led, callbacks, advertising, connected>>
            /\ (last'.kind = "write" /\ Len(v) = 5 /\ v[5] = 0)
                  => /\ onWrite(SubSeq(v, 1, 4))
                     /\ calls'[1].fn = "ledcWrite"
                     /\ calls'[1].a = GALVO_PINS[1]
                     /\ UNCHANGED <<pc, i, led, callbacks, advertising, connected>>
      ]_vars

\* 2.0 sent in the 5-byte format with channel byte 0 set channel 0 to 1000,
\* as its 4-byte form does, on the device whose channel 5 holds 700
C22_Witness ==
    /\ last.kind = "write"
    /\ attValue = <<0, 0, 0, 64, 0>>
    /\ duty[0] = 1000
    /\ pwm[GALVO_PINS[1]] = 1000
    /\ duty[5] = 700

\* the place of a non-NaN float32 in the order of the reals: -inf lowest,
\* the two zeros equal, +inf highest
FKey(f) ==
    LET mag == f.exp * 8388608 + f.man
    IN  IF f.sign = 1 THEN 0 - mag ELSE mag

\* f <= g for float32 values: false when either is NaN
FLe(f, g) == ~IsNaN(f) /\ ~IsNaN(g) /\ FKey(f) <= FKey(g)

\* values every written value is compared with: -inf, -5.0, -0.0, 0.0, the
\* smallest subnormal, the float32 on either side of 0.001, 0.01f, 0.3f, the
\* neighbours of 0.5, 0.6f, 0.7f, 0.8f, 0.9f, the neighbours of 1.0, 2.0, +inf
MonoAnchors ==
    { <<0, 0, 128, 255>>, <<0, 0, 160, 192>>, <<0, 0, 0, 128>>, <<0, 0, 0, 0>>,
      <<1, 0, 0, 0>>, <<110, 18, 131, 58>>, <<111, 18, 131, 58>>,
      <<10, 215, 35, 60>>, <<154, 153, 153, 62>>,
      <<255, 255, 255, 62>>, <<0, 0, 0, 63>>, <<1, 0, 0, 63>>,
      <<154, 153, 25, 63>>, <<51, 51, 51, 63>>, <<205, 204, 76, 63>>,
      <<102, 102, 102, 63>>,
      <<255, 255, 127, 63>>, <<0, 0, 128, 63>>, <<1, 0, 128, 63>>,
      <<0, 0, 0, 64>>, <<0, 0, 128, 127>> }

\* C23: the duty mapping is monotonic non-decreasing over non-NaN values:
\* the duty a write of v sets is at most the duty of every value above v and
\* at least the duty of every value below it (here: of each value of
\* MonoAnchors), values that compare equal (0.0 and -0.0) get the same duty,
\* and for a finite v >= 0 the next float32 above v never gets a smaller duty.
C23_MappingMonotonic ==
    (WriteApplied /\ ~NaNBytes(ValueBytes))
        => LET f == LEFloat32(ValueBytes)
               d == duty[TargetOf(attValue)]
           IN  /\ \A w \in MonoAnchors :
                     LET g == LEFloat32(w)
                         e == MappedDuty(g)
                     IN  /\ FLe(f, g) => d <= e
                         /\ FLe(g, f) => e <= d
               /\ (f.sign = 0 /\ f.exp < 255) => d <= MappedDuty(NextUp(f))

\* 0x3F4CCCCD (0.8f) set channel 0 to 800, between the duties of 0.7f and 0.9f
C23_Witness ==
    /\ last.kind = "write"
    /\ attValue = <<205, 204, 76, 63>>
    /\ duty[0] = 800
    /\ MappedDuty(LEFloat32(<<51, 51, 51, 63>>)) = 700
    /\ MappedDuty(LEFloat32(<<102, 102, 102, 63>>)) = 900

====
